---- MODULE Spec2Model ----
(***************************************************************************)
(* Capacity-constrained training equilibrium of add_calibration_v21.py:    *)
(* solve_capacity_equilibrium (closure of main) and _solve_mini (closure   *)
(* of run_sensitivity).                                                    *)
(*                                                                         *)
(* Units.  Python floats are modelled by exact integers:                   *)
(*   - a cost is an integer number of 0.0001 $/hr, so the convergence      *)
(*     tolerance 0.0001 is 1 cost unit;                                    *)
(*   - a quantity (demand, capacity, share) is held in units of            *)
(*     1/ALPHA_DEN, so that x * ALPHA is the integer x * ALPHA_NUM;        *)
(*   - omega[iso] is a whole number of OmegaDen-ths, the shares summing to  *)
(*     1, and one quantity unit is Q_TOTAL / OmegaDen GPU-hours, so that   *)
(*     omega[iso] * Q_TOTAL is the integer held in omega[iso];             *)
(*   - the markup lam is held in units of 1/LAMBDA_DEN;                    *)
(*   - hhi is the exact fraction num/den.                                  *)
(***************************************************************************)
EXTENDS Integers, Sequences, FiniteSets, TLC

\* ---------------------------------------------------------------- bounds
\* largest grid capacity k_bar[iso], in quantity units
MaxKBar == 2
\* resolution of the demand shares: omega[iso] is n / OmegaDen
OmegaDen == 4
\* rows of the latency table
MaxLatencyRows == 2
\* w:t elements of a paragraph, and characters of one of them
MaxRuns == 3
MaxRunLen == 2

\* ------------------------------------------------------ program constants
ALPHA_NUM == 1
ALPHA_DEN == 2
LAMBDA_NUM == 1
LAMBDA_DEN == 10
MaxIter == 30
Tol == 1
\* k_bar.get(iso, 1e12): a capacity no demand reaches
KBarUnbounded == 1000000
\* TAU = 0.0008 per ms
TAU_NUM == 8
TAU_DEN == 10000
\* DOMESTIC_LATENCY_DEFAULT = 5.0 ms
DOMESTIC_LATENCY_DEFAULT == 5
\* get_latency(j, k) or 9999
NoLatency == 9999
\* PHI = 1.08 and DELTA_PUE = 0.015, in thousandths
PHI == 1080
DELTA_PUE == 15
\* THETA_REF = 15.0 degrees C
THETA_REF == 15
\* GAMMA = 0.700 kW, in tenths
GAMMA == 7
GPU_PRICE == 25000
GPU_LIFE == 3
\* GPU_UTIL = 0.70 in v21 and 0.90 in v3, in tenths
GPU_UTIL == 7
GPU_UTIL_V3 == 9
DC_LIFE == 15
\* H_YR = 365.25 * 24
H_YR == 8766
\* ETA = 0.15 $/hr, in cost units of 0.0000001
ETA == 1500000
\* GPU_TDP_W = 700 watts
GPU_TDP_W == 700
\* for _attempt in range(30) of the save
SaveAttempts == 30

\* The calibration rows, in file order (the insertion order of costs_dict
\* and dc_k).
cal == <<"A", "IRN", "B">>

ISO == {cal[i] : i \in 1..Len(cal)}

\* Unit costs: three levels, of which 11 is within the markup of 10
\* (11 <= 1.10 * 10) and 12 is not.
Costs == {10, 11, 12}

KBars == 0..MaxKBar

sanctioned == {"IRN"}

VARIABLES costs_dict, omega, k_bar, supply_stack, solver, lam,
          pc, p_T, p_prev, m_T, Q_TX, it, found, brk, shares, hhi, mu, outcome,
          call_no, rets,
          prog, buyers, count_dom_10, count_dom_20, extra_dom,
          latency, todo, regime_rows, adj_reg,
          row, kwargs, c_total,
          adj_costs, new_regime, regime_changes,
          attempt, saves, sleeps, locked,
          t_elements, para, old_text, new_text

inputs == <<costs_dict, omega, k_bar, supply_stack, solver, lam>>

\* main's state around the calls of the solver: the number of the call
\* under way and the results of the calls before it
mainVars == <<call_no, rets>>

\* the counterfactual of main: the program run (v21 or v16), the buyers
\* counted (dc_k or gdp_k) and the three counts
cfVars == <<prog, buyers, count_dom_10, count_dom_20, extra_dom>>

\* the sourcing of inference: the latency table, the buyers the loop has
\* still to assign, and the rows assigned (regime_rows in v3, adj_reg in
\* v21)
regimeVars == <<latency, todo, regime_rows, adj_reg>>

\* the cost model: a calibration row, the overrides of the scenario and
\* the unit cost computed
costVars == <<row, kwargs, c_total>>

\* the count of regime changes: the cost-recovery costs, the regime
\* recomputed for each buyer and the count
changeVars == <<adj_costs, new_regime, regime_changes>>

\* the save of the document: the attempt under way, the calls of doc.save
\* and of time.sleep made, and whether Word holds the file open
saveVars == <<attempt, saves, sleeps, locked>>

\* replace_in_runs: the text of the paragraph's w:t elements now and at
\* the call, and the two arguments
runVars == <<t_elements, para, old_text, new_text>>

\* the document stage of main and fix_proofread
laterVars == <<changeVars, saveVars, runVars>>

\* the state a call of a solver leaves alone
outside == <<mainVars, cfVars, regimeVars, costVars, laterVars>>

vars == <<costs_dict, omega, k_bar, supply_stack, solver, lam,
          pc, p_T, p_prev, m_T, Q_TX, it, found, brk, shares, hhi, mu, outcome,
          outside>>

\* ---------------------------------------------------------------- helpers
Abs(x) == IF x < 0 THEN -x ELSE x

Min(a, b) == IF a <= b THEN a ELSE b

EmptyMap == [x \in {} |-> 0]

\* dict.get(key, default)
Get(d, key, default) == IF key \in DOMAIN d THEN d[key] ELSE default

\* d[key] = val on a Python dict
Put(d, key, val) == [x \in (DOMAIN d) \cup {key} |-> IF x = key THEN val ELSE d[x]]

RECURSIVE SumOver(_, _)
SumOver(f, S) ==
    IF S = {} THEN 0
    ELSE LET x == CHOOSE y \in S : TRUE IN f[x] + SumOver(f, S \ {x})

\* sum(d.values())
SumValues(d) == SumOver(d, DOMAIN d)

\* omega = {iso: d / total_dc for iso, d in dc_k.items()}: positive shares
\* of the calibration rows that sum to 1.
Omegas == {f \in [ISO -> 1..OmegaDen] : SumValues(f) = OmegaDen}

\* Q_TOTAL in quantity units
Q_TOTAL == OmegaDen

\* omega.get(iso, 0) * Q_TOTAL, with omega[iso] held as n of n / OmegaDen
TimesQTotal(n) == (n * Q_TOTAL) \div OmegaDen

\* x * ALPHA, in quantity units of 1/ALPHA_DEN
TimesAlpha(x) == x * ALPHA_NUM

\* sorted(rows, key=lambda x: x[1]): a stable insertion of row r into an
\* already sorted list, after every row whose cost is not greater.
RECURSIVE InsertByCost(_, _)
InsertByCost(r, s) ==
    IF s = << >> THEN <<r>>
    ELSE IF Head(s)[2] <= r[2] THEN <<Head(s)>> \o InsertByCost(r, Tail(s))
    ELSE <<r>> \o s

RECURSIVE SortedByCost(_)
SortedByCost(rows) ==
    IF rows = << >> THEN << >>
    ELSE InsertByCost(rows[Len(rows)], SortedByCost(SubSeq(rows, 1, Len(rows) - 1)))

\* [(iso, costs[iso], k_bar.get(iso, 1e12)) for iso in costs if iso in k_bar]
RECURSIVE StackRows(_, _, _)
StackRows(costs, kb, i) ==
    IF i > Len(cal) THEN << >>
    ELSE IF cal[i] \in DOMAIN costs /\ cal[i] \in DOMAIN kb
         THEN <<(<<cal[i], costs[cal[i]], kb[cal[i]]>>)>> \o StackRows(costs, kb, i + 1)
         ELSE StackRows(costs, kb, i + 1)

BuildSupplyStack(costs, kb) == SortedByCost(StackRows(costs, kb, 1))

\* ------------------------------------------------- the fixed-point loop
\* c_k > (1 + lam) * p_T, with lam in units of 1/LAMBDA_DEN
Imports(c_k, l, p) == c_k * LAMBDA_DEN > (LAMBDA_DEN + l) * p

\* Q_TX of one pass: `for iso in dc_k` (the calibration rows, in order),
\* the bulk demand of every buyer whose own cost exceeds (1 + lam) * p_T.
RECURSIVE ExportDemandFrom(_, _, _, _)
ExportDemandFrom(i, costs, l, p) ==
    IF i > Len(cal) THEN 0
    ELSE IF cal[i] \in DOMAIN costs /\ Imports(costs[cal[i]], l, p)
         THEN TimesAlpha(TimesQTotal(Get(omega, cal[i], 0)))
                  + ExportDemandFrom(i + 1, costs, l, p)
         ELSE ExportDemandFrom(i + 1, costs, l, p)

ExportDemand(costs, l, p) == ExportDemandFrom(1, costs, l, p)

\* Variant: the capacity taken whole, without the bulk share ALPHA.
CapAvailableNoAlpha(k_j) == k_j * ALPHA_DEN

\* cap_available = k_j * ALPHA
CapAvailable(k_j) == TimesAlpha(k_j)

\* The walk up the supply stack: the (1-based) position of the first
\* non-sanctioned seller at which cumulative capacity reaches Q, or 0 when
\* the walk ends without one (found = False).
RECURSIVE MarginalFrom(_, _, _, _)
MarginalFrom(stack, idx, cum_cap, Q) ==
    IF idx > Len(stack) THEN 0
    ELSE IF stack[idx][1] \in sanctioned THEN MarginalFrom(stack, idx + 1, cum_cap, Q)
    ELSE LET cum == cum_cap + CapAvailable(stack[idx][3])
         IN  IF cum >= Q /\ Q > 0 THEN idx
             ELSE MarginalFrom(stack, idx + 1, cum, Q)

Marginal(stack, Q) == MarginalFrom(stack, 1, 0, Q)

\* Variant: any marginal seller found ends the loop.
StabilizedAlways(p_new, p) == TRUE

\* abs(p_T_new - p_T) < 0.0001
Stabilized(p_new, p) == Abs(p_new - p) < Tol

\* for _ in range(30): the budget still has a pass left after n passes
BudgetLeft(n) == n < MaxIter

\* Variant: m_T assigned only in the converged branch.
LoopBodyStaleIndex(costs, stack, l, p, m, withIndex) ==
    LET Q       == ExportDemand(costs, l, p)
        idx     == Marginal(stack, Q)
        fnd     == idx > 0
        p_T_new == IF fnd THEN stack[idx][2] ELSE p
        stop    == fnd /\ Stabilized(p_T_new, p)
    IN  [Q_TX  |-> Q,
         found |-> fnd,
         m_T   |-> IF stop /\ withIndex THEN idx - 1 ELSE m,
         p_T   |-> p_T_new,
         brk   |-> stop]

\* The body of one pass, from the trial price p and marginal index m:
\* Q_TX, the walk, and the two `if found` updates of p_T.  m_T is the
\* 0-based index of the source; _solve_mini keeps none.
LoopBody(costs, stack, l, p, m, withIndex) ==
    LET Q       == ExportDemand(costs, l, p)
        idx     == Marginal(stack, Q)
        fnd     == idx > 0
        p_T_new == IF fnd THEN stack[idx][2] ELSE p
    IN  [Q_TX  |-> Q,
         found |-> fnd,
         m_T   |-> IF fnd /\ withIndex THEN idx - 1 ELSE m,
         p_T   |-> p_T_new,
         brk   |-> fnd /\ Stabilized(p_T_new, p)]

\* ------------------------------------------------------------ allocation
\* Variant: no seller is given more than one quantity unit.
RECURSIVE FillFromByUnit(_, _, _, _, _)
FillFromByUnit(stack, idx, p, remaining, sh) ==
    IF idx > Len(stack) THEN sh
    ELSE IF stack[idx][1] \in sanctioned THEN FillFromByUnit(stack, idx + 1, p, remaining, sh)
    ELSE IF stack[idx][2] > p THEN sh
    ELSE LET ca   == Min(Min(CapAvailable(stack[idx][3]), 1), remaining)
             sh2  == IF ca > 0 THEN Put(sh, stack[idx][1], ca) ELSE sh
             rem2 == IF ca > 0 THEN remaining - ca ELSE remaining
         IN  IF rem2 <= 0 THEN sh2
             ELSE FillFromByUnit(stack, idx + 1, p, rem2, sh2)

\* The greedy fill of the stack, cheapest first, up to the price p.
RECURSIVE FillFrom(_, _, _, _, _)
FillFrom(stack, idx, p, remaining, sh) ==
    IF idx > Len(stack) THEN sh
    ELSE IF stack[idx][1] \in sanctioned THEN FillFrom(stack, idx + 1, p, remaining, sh)
    ELSE IF stack[idx][2] > p THEN sh
    ELSE LET ca   == Min(CapAvailable(stack[idx][3]), remaining)
             sh2  == IF ca > 0 THEN Put(sh, stack[idx][1], ca) ELSE sh
             rem2 == IF ca > 0 THEN remaining - ca ELSE remaining
         IN  IF rem2 <= 0 THEN sh2
             ELSE FillFrom(stack, idx + 1, p, rem2, sh2)

ComputeShares(stack, p, Q) == FillFrom(stack, 1, p, Q, EmptyMap)

RECURSIVE SumSquares(_, _)
SumSquares(f, S) ==
    IF S = {} THEN 0
    ELSE LET x == CHOOSE y \in S : TRUE IN f[x] * f[x] + SumSquares(f, S \ {x})

\* Variant: the shares summed without squaring.
HhiNoSquare(sh) ==
    LET total_exp == SumValues(sh)
    IN  IF total_exp > 0
        THEN [num |-> total_exp, den |-> total_exp]
        ELSE [num |-> 1, den |-> 1]

\* sum((s / total_exp) ** 2 ...) if total_exp > 0 else 1.0, as a fraction
Hhi(sh) ==
    LET total_exp == SumValues(sh)
    IN  IF total_exp > 0
        THEN [num |-> SumSquares(sh, DOMAIN sh), den |-> total_exp * total_exp]
        ELSE [num |-> 1, den |-> 1]

\* Variant: every seller below the price counts as constrained.
AtCapacityAlways(allocated, k_j) == TRUE

\* allocated >= k_j * ALPHA * 0.99
AtCapacity(allocated, k_j) == allocated * 100 >= CapAvailable(k_j) * 99

\* The shadow values of the sellers below the price whose capacity binds.
RECURSIVE ShadowFrom(_, _, _, _, _)
ShadowFrom(stack, idx, p, sh, m) ==
    IF idx > Len(stack) THEN m
    ELSE IF stack[idx][1] \in sanctioned THEN ShadowFrom(stack, idx + 1, p, sh, m)
    ELSE IF stack[idx][2] < p /\ AtCapacity(Get(sh, stack[idx][1], 0), stack[idx][3])
         THEN ShadowFrom(stack, idx + 1, p, sh, Put(m, stack[idx][1], p - stack[idx][2]))
         ELSE ShadowFrom(stack, idx + 1, p, sh, m)

ShadowValues(stack, p, sh) == ShadowFrom(stack, 1, p, sh, EmptyMap)

\* ------------------------------------------------------- a call as a whole
\* The passes of the loop from the trial price p, after n passes: the
\* values the loop leaves when it breaks or its budget ends.
RECURSIVE LoopFrom(_, _, _, _, _, _, _)
LoopFrom(costs, stack, l, p, m, n, withIndex) ==
    LET b == LoopBody(costs, stack, l, p, m, withIndex)
    IN  IF b.brk \/ ~BudgetLeft(n + 1)
        THEN [p_T |-> b.p_T, m_T |-> b.m_T, Q_TX |-> b.Q_TX, brk |-> b.brk, it |-> n + 1]
        ELSE LoopFrom(costs, stack, l, b.p_T, b.m_T, n + 1, withIndex)

\* What a call on a non-empty stack returns: solve_capacity_equilibrium
\* (withIndex) gives p_T, m_T, shares, hhi, mu and len(shares), _solve_mini
\* gives p_T, len(shares) and hhi.
Solve(costs, stack, l, withIndex) ==
    LET r  == LoopFrom(costs, stack, l, stack[1][2], 0, 0, withIndex)
        sh == ComputeShares(stack, r.p_T, r.Q_TX)
    IN  [p_T |-> r.p_T, m_T |-> r.m_T, Q_TX |-> r.Q_TX, brk |-> r.brk, it |-> r.it,
         shares |-> sh, hhi |-> Hhi(sh),
         mu |-> IF withIndex THEN ShadowValues(stack, r.p_T, sh) ELSE EmptyMap,
         n_exp |-> Cardinality(DOMAIN sh)]

\* --------------------------------------------------------------- the run
\* return None
None == -1

\* no row is being costed
NoCost ==
    /\ row = EmptyMap
    /\ kwargs = EmptyMap
    /\ c_total = 0

\* no regime is recounted, nothing is saved and no paragraph is edited
NoLater ==
    /\ adj_costs = EmptyMap
    /\ new_regime = EmptyMap
    /\ regime_changes = 0
    /\ attempt = 0
    /\ saves = 0
    /\ sleeps = 0
    /\ locked = FALSE
    /\ t_elements = << >>
    /\ para = << >>
    /\ old_text = << >>
    /\ new_text = << >>

\* no latency table is loaded and no buyer is assigned
NoSourcing ==
    /\ latency = EmptyMap
    /\ todo = << >>
    /\ regime_rows = EmptyMap
    /\ adj_reg = EmptyMap

\* main before its counterfactual and its sourcing
NoCounterfactual ==
    /\ prog = "v21"
    /\ buyers = ISO
    /\ count_dom_10 = 0
    /\ count_dom_20 = 0
    /\ extra_dom = 0
    /\ NoSourcing
    /\ NoCost
    /\ NoLater

KBarMaps == UNION {[S -> KBars] : S \in SUBSET ISO}

Init ==
    /\ costs_dict \in [ISO -> Costs]
    /\ omega \in Omegas
    /\ k_bar \in KBarMaps
    /\ supply_stack = BuildSupplyStack(costs_dict, k_bar)
    /\ \/ solver = "solve_capacity_equilibrium" /\ lam \in {0, LAMBDA_NUM}
       \/ solver = "_solve_mini" /\ lam = 0
    /\ pc = "call"
    /\ p_T = 0
    /\ p_prev = 0
    /\ m_T = 0
    /\ Q_TX = 0
    /\ it = 0
    /\ found = FALSE
    /\ brk = FALSE
    /\ shares = EmptyMap
    /\ hhi = [num |-> 0, den |-> 1]
    /\ mu = EmptyMap
    /\ outcome = "none"
    /\ call_no = 1
    /\ rets = << >>
    /\ NoCounterfactual

\* Variant: a later call starts from the price the call before it left.
EnterWarmStart ==
    /\ pc = "call"
    /\ Len(supply_stack) > 0
    /\ p_T' = IF call_no > 1 THEN p_T ELSE supply_stack[1][2]
    /\ p_prev' = p_T'
    /\ m_T' = 0
    /\ Q_TX' = 0
    /\ it' = 0
    /\ pc' = "loop"
    /\ UNCHANGED <<inputs, found, brk, shares, hhi, mu, outcome, outside>>

\* p_T = supply_stack[0][1]; m_T = 0; Q_TX = 0, and a fresh range(30)
Enter ==
    /\ pc = "call"
    /\ Len(supply_stack) > 0
    /\ p_T' = supply_stack[1][2]
    /\ p_prev' = supply_stack[1][2]
    /\ m_T' = 0
    /\ Q_TX' = 0
    /\ it' = 0
    /\ pc' = "loop"
    /\ UNCHANGED <<inputs, found, brk, shares, hhi, mu, outcome, outside>>

\* supply_stack[0] on an empty stack raises IndexError
EnterEmpty ==
    /\ pc = "call"
    /\ Len(supply_stack) = 0
    /\ outcome' = "IndexError"
    /\ pc' = "done"
    /\ UNCHANGED <<inputs, p_T, p_prev, m_T, Q_TX, it, found, brk, shares, hhi, mu, outside>>

\* Variant: `while True` in place of the counted loop.
IterateWhileTrue ==
    /\ pc = "loop"
    /\ LET b == LoopBody(costs_dict, supply_stack, lam, p_T, m_T,
                         solver = "solve_capacity_equilibrium")
       IN  /\ Q_TX' = b.Q_TX
           /\ found' = b.found
           /\ m_T' = b.m_T
           /\ p_prev' = p_T
           /\ p_T' = b.p_T
           /\ brk' = b.brk
           /\ it' = IF it < MaxIter THEN it + 1 ELSE it
           /\ pc' = IF b.brk THEN "shares" ELSE "loop"
    /\ UNCHANGED <<inputs, shares, hhi, mu, outcome, outside>>

\* One pass of `for _ in range(30)`; p_prev keeps the trial price the pass
\* started from, brk whether the pass left the loop through `break`.
Iterate ==
    /\ pc = "loop"
    /\ BudgetLeft(it)
    /\ LET b == LoopBody(costs_dict, supply_stack, lam, p_T, m_T,
                         solver = "solve_capacity_equilibrium")
       IN  /\ Q_TX' = b.Q_TX
           /\ found' = b.found
           /\ m_T' = b.m_T
           /\ p_prev' = p_T
           /\ p_T' = b.p_T
           /\ brk' = b.brk
           /\ it' = it + 1
           /\ pc' = IF b.brk \/ ~BudgetLeft(it + 1) THEN "shares" ELSE "loop"
    /\ UNCHANGED <<inputs, shares, hhi, mu, outcome, outside>>

\* shares, total_exp and hhi; _solve_mini returns p_T, len(shares), hhi here.
Allocate ==
    /\ pc = "shares"
    /\ shares' = ComputeShares(supply_stack, p_T, Q_TX)
    /\ hhi' = Hhi(shares')
    /\ IF solver = "_solve_mini"
       THEN pc' = "done" /\ outcome' = "return"
       ELSE pc' = "mu" /\ outcome' = outcome
    /\ UNCHANGED <<inputs, p_T, p_prev, m_T, Q_TX, it, found, brk, mu, outside>>

\* mu, then return p_T, m_T, shares, hhi, mu, ls_cap, len(shares).  ls_cap
\* divides by p_T, which is a seller's cost and positive here.
Shadow ==
    /\ pc = "mu"
    /\ mu' = ShadowValues(supply_stack, p_T, shares)
    /\ outcome' = "return"
    /\ pc' = "done"
    /\ UNCHANGED <<inputs, p_T, p_prev, m_T, Q_TX, it, found, brk, shares, hhi, outside>>

Next == Enter \/ EnterEmpty \/ Iterate \/ Allocate \/ Shadow

Spec == Init /\ [][Next]_vars


\* ================================================================ claims
Full == solver = "solve_capacity_equilibrium"

Returned == outcome = "return"

\* the loop is over and the call has not raised
LoopOver == pc \in {"shares", "mu"} \/ Returned

\* shares and hhi are computed
SharesDone == pc = "mu" \/ Returned

StackIdx == 1..Len(supply_stack)

Open(i) == supply_stack[i][1] \notin sanctioned

\* ------------------------------------------------------------------- C1
\* C1: in every result of either solver, converged or not, every share is
\* strictly positive, belongs to a seller on the stack and is at most that
\* seller's capacity for the bulk class, k_j * ALPHA.
C1_CapacityFeasibility ==
    SharesDone =>
        /\ DOMAIN shares \subseteq {supply_stack[i][1] : i \in StackIdx}
        /\ \A i \in StackIdx :
               supply_stack[i][1] \in DOMAIN shares =>
                   /\ shares[supply_stack[i][1]] > 0
                   /\ shares[supply_stack[i][1]] <= supply_stack[i][3] * ALPHA_NUM

\* a result in which one seller is filled to capacity and another is not
C1_Witness ==
    /\ Returned
    /\ \E i, j \in StackIdx :
           /\ supply_stack[i][1] \in DOMAIN shares
           /\ supply_stack[j][1] \in DOMAIN shares
           /\ shares[supply_stack[i][1]] = supply_stack[i][3] * ALPHA_NUM
           /\ shares[supply_stack[j][1]] < supply_stack[j][3] * ALPHA_NUM

\* ------------------------------------------------------------------- C2
\* C2: the shares returned by solve_capacity_equilibrium sum to the export
\* demand Q_TX of its last iteration, for every input.
C2_MarketClearing ==
    (Returned /\ Full) => SumValues(shares) = Q_TX

\* ------------------------------------------------------------------- C3
\* C3: at every iteration and at return the trial price is the cost of a
\* seller on the stack, and supply_stack[m_T] is such a seller.
C3_PriceIsSellerCost ==
    (pc = "loop" \/ LoopOver) =>
        /\ \E i \in StackIdx : supply_stack[i][2] = p_T
        /\ Full => /\ m_T + 1 \in StackIdx
                   /\ supply_stack[m_T + 1][2] = p_T

\* a result whose price moved off the cheapest seller without the loop
\* converging
C3_Witness ==
    /\ Returned /\ Full /\ ~brk
    /\ m_T > 0
    /\ p_T # supply_stack[1][2]

\* ------------------------------------------------------------------- C4
\* The number of steps a call has left at most: the passes of the budget,
\* then the allocation, the shadow values and the return.
Rank ==
    CASE pc = "call"   -> MaxIter + 3
      [] pc = "loop"   -> (MaxIter - it) + 2
      [] pc = "shares" -> 2
      [] pc = "mu"     -> 1
      [] pc = "done"   -> 0

\* C4: every call ends.  The loop never passes more than 30 times; a call
\* still in the loop has a pass of its budget left to take, every step brings
\* the end nearer, and on a non-empty stack the call ends by returning a
\* result.
C4_Termination ==
    /\ [](it <= MaxIter /\ Rank >= 0)
    /\ [](pc = "loop" => it < MaxIter)
    /\ [](pc = "done" => (Len(supply_stack) > 0 => Returned))
    /\ [][Rank' < Rank]_vars

\* a call that returned after 30 passes whose last two trial prices differ
C4_Witness ==
    /\ Returned
    /\ it = MaxIter
    /\ found
    /\ p_T # p_prev

\* ------------------------------------------------------------------- C5
\* C5: a call whose loop used up its budget without two consecutive trial
\* prices agreeing (the last pass still moved the price) does not end as an
\* ordinary return, the only outcome a converged call has.
C5_NonConvergenceReported ==
    (pc = "done" /\ it = MaxIter /\ ~brk /\ p_T # p_prev) => ~Returned

\* ------------------------------------------------------------------- C6
\* C6 (as claimed): for every input the trial prices reach, within the
\* budget, a price equal to the next one computed from it; so the last pass
\* of a call that returns left the price where it was.
C6_AlwaysConverges ==
    Returned => p_T = p_prev

\* C6 (amended): the loop ends early only when a walk finds a marginal
\* seller whose cost is within the tolerance of the trial price the pass
\* started from; otherwise it ends after exactly 30 passes, the last of
\* which found no such seller.
C6_StopsOnAgreementOrBudget ==
    LoopOver =>
        /\ brk => (found /\ it <= MaxIter /\ Abs(p_T - p_prev) < Tol)
        /\ ~brk => (it = MaxIter /\ (~found \/ Abs(p_T - p_prev) >= Tol))

\* both ways out: this state is an exhausted alternation of prices
C6_Witness ==
    /\ Returned /\ ~brk /\ found
    /\ it = MaxIter
    /\ p_T # p_prev

\* ------------------------------------------------------------------- C7
\* C7: a result of solve_capacity_equilibrium with zero export demand has
\* the cheapest seller's cost as price, no allocation and no shadow value.
C7_ZeroDemand ==
    (Returned /\ Full /\ Q_TX = 0) =>
        /\ p_T = supply_stack[1][2]
        /\ shares = EmptyMap
        /\ mu = EmptyMap

\* ------------------------------------------------------------------- C8
\* C8: with an empty stack, only excluded sellers, or no capacity among the
\* non-excluded sellers, the call does not return a clearing price.
C8_NoEquilibrium ==
    (/\ pc = "done"
     /\ \A i \in StackIdx : ~Open(i) \/ supply_stack[i][3] = 0) => ~Returned

\* ------------------------------------------------------------------- C9
\* C9 (as claimed): the index is in (0, 1], is 1 exactly when exactly one
\* seller has an allocation, and is below 1 with two or more.
C9_ConcentrationBound ==
    SharesDone =>
        /\ 0 < hhi.num /\ hhi.num <= hhi.den
        /\ (hhi.num = hhi.den) <=> (Cardinality(DOMAIN shares) = 1)
        /\ Cardinality(DOMAIN shares) >= 2 => hhi.num < hhi.den

\* C9 (amended): the index is in (0, 1], is 1 exactly when at most one
\* seller has an allocation (1.0 is also the value when none has), and is
\* below 1 with two or more.
C9_ConcentrationAtMostOne ==
    SharesDone =>
        /\ 0 < hhi.num /\ hhi.num <= hhi.den
        /\ (hhi.num = hhi.den) <=> (Cardinality(DOMAIN shares) <= 1)
        /\ Cardinality(DOMAIN shares) >= 2 => hhi.num < hhi.den

\* two sellers with an allocation
C9_Witness ==
    /\ Returned
    /\ Cardinality(DOMAIN shares) >= 2
    /\ hhi.num < hhi.den

\* ------------------------------------------------------------------ C10
\* C10 (as claimed): every non-excluded seller whose share is its full
\* capacity (within tolerance) is in mu with value p_T - c_j, and no seller
\* allocated less is.
C10_ShadowValues ==
    (Returned /\ Full) =>
        \A i \in StackIdx :
            (Open(i) /\ supply_stack[i][1] \in DOMAIN shares) =>
                IF shares[supply_stack[i][1]] * 100 >= supply_stack[i][3] * ALPHA_NUM * 99
                THEN /\ supply_stack[i][1] \in DOMAIN mu
                     /\ mu[supply_stack[i][1]] = p_T - supply_stack[i][2]
                ELSE supply_stack[i][1] \notin DOMAIN mu

\* C10 (amended): mu holds exactly the non-excluded sellers whose cost is
\* strictly below the clearing price and whose allocation is at least 99%
\* of k_j * ALPHA, each with the positive value p_T - c_j; a seller filled
\* to capacity at the clearing price itself is not reported.
C10_ShadowBelowPrice ==
    (Returned /\ Full) =>
        /\ DOMAIN mu \subseteq {supply_stack[i][1] : i \in StackIdx}
        /\ \A i \in StackIdx :
               /\ (supply_stack[i][1] \in DOMAIN mu) <=>
                      /\ Open(i)
                      /\ supply_stack[i][2] < p_T
                      /\ Get(shares, supply_stack[i][1], 0) * 100
                             >= supply_stack[i][3] * ALPHA_NUM * 99
               /\ supply_stack[i][1] \in DOMAIN mu =>
                      /\ mu[supply_stack[i][1]] = p_T - supply_stack[i][2]
                      /\ mu[supply_stack[i][1]] > 0

\* one seller below the price filled to capacity and reported, and the
\* marginal seller, allocated at the price, not reported
C10_Witness ==
    /\ Returned /\ Full
    /\ \E i, j \in StackIdx :
           /\ supply_stack[i][1] \in DOMAIN mu
           /\ supply_stack[i][3] > 0
           /\ supply_stack[j][1] \notin DOMAIN mu
           /\ supply_stack[j][2] = p_T
           /\ supply_stack[j][1] \in DOMAIN shares

\* ------------------------------------------------------------------ C11
\* Costs of the scenario, in cost units of 0.0001: 1.00, 1.20 and a buyer's
\* cost above (1 + LAMBDA) * 1.20.
ScenarioCosts == {10000, 12000, 15000}

\* Capacities of the scenario: k_bar = 2 leaves k_bar * ALPHA = 1 unit for
\* the bulk class; KBarUnbounded stands for the 1e12 of an unbounded seller.
ScenarioKBars == {2, KBarUnbounded}

\* The demand weights of the scenario: a buyer has none or 1.5 units of bulk
\* demand (3 quantity units of 1/ALPHA_DEN).
ScenarioOmegas == [ISO -> {0, 3}]

ScenarioInit ==
    /\ costs_dict \in [ISO -> ScenarioCosts]
    /\ omega \in ScenarioOmegas
    /\ k_bar \in UNION {[S -> ScenarioKBars] : S \in SUBSET ISO}
    /\ supply_stack = BuildSupplyStack(costs_dict, k_bar)
    /\ solver = "solve_capacity_equilibrium"
    /\ lam \in {0, LAMBDA_NUM}
    /\ pc = "call"
    /\ p_T = 0
    /\ p_prev = 0
    /\ m_T = 0
    /\ Q_TX = 0
    /\ it = 0
    /\ found = FALSE
    /\ brk = FALSE
    /\ shares = EmptyMap
    /\ hhi = [num |-> 0, den |-> 1]
    /\ mu = EmptyMap
    /\ outcome = "none"
    /\ call_no = 1
    /\ rets = << >>
    /\ NoCounterfactual

SpecScenario == ScenarioInit /\ [][Next]_vars

\* two sellers of costs 1.00 and 1.20 with bulk capacities 1 unit and
\* unbounded, none of them excluded, and an export demand of 1.5 units at
\* both prices the loop can try
Scenario1 ==
    /\ Len(supply_stack) = 2
    /\ supply_stack[1][2] = 10000 /\ supply_stack[1][3] = 2
    /\ supply_stack[2][2] = 12000 /\ supply_stack[2][3] = KBarUnbounded
    /\ \A i \in StackIdx : Open(i)
    /\ ExportDemand(costs_dict, lam, 10000) = 3
    /\ ExportDemand(costs_dict, lam, 12000) = 3

\* C11: in scenario 1 the solver returns the price 1.20 with seller 2
\* marginal, allocates 1 unit to seller 1 and 0.5 units to seller 2, and
\* reports the shadow value 0.20 for seller 1 and for no one else.
C11_Scenario1 ==
    (Returned /\ Scenario1) =>
        /\ p_T = 12000
        /\ m_T = 1
        /\ shares = [x \in {supply_stack[1][1], supply_stack[2][1]} |->
                        IF x = supply_stack[1][1] THEN 2 ELSE 1]
        /\ mu = [x \in {supply_stack[1][1]} |-> 2000]

\* the scenario has been solved, after a pass that moved the price
C11_Witness ==
    /\ Returned /\ Scenario1
    /\ brk /\ it = 2
    /\ DOMAIN mu # {}

\* ------------------------------------------------------------------ C12
\* The calls main makes: lam = 0 and lam = LAMBDA on the baseline costs,
\* then the same two on the cost-recovery costs.
MainCalls == 4

\* the markup of main's n-th call
CallLam(n) == IF n % 2 = 1 THEN 0 ELSE LAMBDA_NUM

\* the countries of SUBSIDY_ADJ among the calibration rows
SUBSIDY_ADJ == {"IRN"}

\* adj_costs: costs_dict with the cost of every country of SUBSIDY_ADJ
\* moved by delta_elec, which may be zero, to another level c
AdjCosts(costs, c) == [iso \in DOMAIN costs |-> IF iso \in SUBSIDY_ADJ THEN c ELSE costs[iso]]

\* grid capacities of the calls: every seller on the stack has some
CallsKBarMaps == UNION {[S -> 1..2] : S \in SUBSET ISO}

CallsInit ==
    /\ costs_dict \in [ISO -> Costs]
    /\ omega \in Omegas
    /\ k_bar \in CallsKBarMaps
    /\ supply_stack = BuildSupplyStack(costs_dict, k_bar)
    /\ solver = "solve_capacity_equilibrium"
    /\ lam = CallLam(1)
    /\ pc = "call"
    /\ p_T = 0
    /\ p_prev = 0
    /\ m_T = 0
    /\ Q_TX = 0
    /\ it = 0
    /\ found = FALSE
    /\ brk = FALSE
    /\ shares = EmptyMap
    /\ hhi = [num |-> 0, den |-> 1]
    /\ mu = EmptyMap
    /\ outcome = "none"
    /\ call_no = 1
    /\ rets = << >>
    /\ NoCounterfactual

\* what a call was given and what it returned
CallRecord ==
    [supply_stack |-> supply_stack, costs_dict |-> costs_dict, omega |-> omega,
     lam |-> lam, p_T |-> p_T, shares |-> shares, hhi |-> hhi, mu |-> mu]

\* Variant: the solver keeps the stack it was defined with; main rebinds
\* only costs_dict.
NextCallKeepsStack ==
    /\ pc = "done"
    /\ outcome = "return"
    /\ call_no < MainCalls
    /\ rets' = Append(rets, CallRecord)
    /\ call_no' = call_no + 1
    /\ lam' = CallLam(call_no + 1)
    /\ IF call_no = 2
       THEN \E c \in Costs : costs_dict' = AdjCosts(costs_dict, c)
       ELSE UNCHANGED costs_dict
    /\ pc' = "call"
    /\ outcome' = "none"
    /\ UNCHANGED <<omega, k_bar, supply_stack, solver, p_T, p_prev, m_T, Q_TX, it, found,
                   brk, shares, hhi, mu, cfVars, regimeVars, costVars, laterVars>>

\* main between two calls: it keeps the result, and before its third call
\* rebinds supply_stack and costs_dict to the cost-recovery values.  The
\* locals of the call that returned are left as they are: a new call
\* assigns its own.
NextCall ==
    /\ pc = "done"
    /\ outcome = "return"
    /\ call_no < MainCalls
    /\ rets' = Append(rets, CallRecord)
    /\ call_no' = call_no + 1
    /\ lam' = CallLam(call_no + 1)
    /\ IF call_no = 2
       THEN \E c \in Costs :
                /\ costs_dict' = AdjCosts(costs_dict, c)
                /\ supply_stack' = BuildSupplyStack(costs_dict', k_bar)
       ELSE UNCHANGED <<costs_dict, supply_stack>>
    /\ pc' = "call"
    /\ outcome' = "none"
    /\ UNCHANGED <<omega, k_bar, solver, p_T, p_prev, m_T, Q_TX, it, found, brk,
                   shares, hhi, mu, cfVars, regimeVars, costVars, laterVars>>

CallsNext == Next \/ NextCall

SpecCalls == CallsInit /\ [][CallsNext]_vars

\* an earlier call with the inputs of this one
SameInputs(r) ==
    /\ r.supply_stack = supply_stack
    /\ r.costs_dict = costs_dict
    /\ r.omega = omega
    /\ r.lam = lam

\* C12: a call that returns gives the price, shares, concentration index
\* and shadow values that every earlier call with the same supply stack,
\* costs, demand weights and markup gave, whatever calls came in between.
C12_Determinism ==
    Returned =>
        \A i \in 1..Len(rets) :
            SameInputs(rets[i]) =>
                /\ rets[i].p_T = p_T
                /\ rets[i].shares = shares
                /\ rets[i].hhi = hhi
                /\ rets[i].mu = mu

\* main's third call has returned on inputs equal to those of its first,
\* after a second call that gave another price
C12_Witness ==
    /\ Returned
    /\ call_no = 3
    /\ SameInputs(rets[1])
    /\ rets[2].p_T # rets[1].p_T

\* ------------------------------------------------------------------ C13
\* Unit costs of the counterfactual: 11 is within 10% of 10, 12 within 20%,
\* 13 within neither; a cost file may also hold a zero or a negative cost.
MarkupCosts == {-10, 0, 10, 11, 12, 13}

\* no call of a solver is under way
NoCall ==
    /\ omega = [iso \in ISO |-> 1]
    /\ k_bar = EmptyMap
    /\ supply_stack = << >>
    /\ solver = "none"
    /\ lam = 0
    /\ p_T = 0
    /\ p_prev = 0
    /\ m_T = 0
    /\ Q_TX = 0
    /\ it = 0
    /\ found = FALSE
    /\ brk = FALSE
    /\ shares = EmptyMap
    /\ hhi = [num |-> 0, den |-> 1]
    /\ mu = EmptyMap
    /\ outcome = "none"
    /\ call_no = 1
    /\ rets = << >>

\* the inputs, locals and results of the solver calls, but for costs_dict
callVars == <<omega, k_bar, supply_stack, solver, lam, p_T, p_prev, m_T, Q_TX, it,
              found, brk, shares, hhi, mu, call_no, rets>>

\* min(costs.values())
RECURSIVE MinOver(_, _)
MinOver(f, S) ==
    LET x == CHOOSE y \in S : TRUE
    IN  IF S = {x} THEN f[x] ELSE Min(f[x], MinOver(f, S \ {x}))

\* Variant: the test of the export shares, cost > (1 + pct/100) * min_cost.
AboveMarkup(c, pct, min_cost) == c * 100 > (100 + pct) * min_cost

\* costs[iso] <= 1.10 * min_cost, and the same with 1.20
WithinMarkup(c, pct, min_cost) == c * 100 <= (100 + pct) * min_cost

\* sum(1 for iso in dc_k if iso in costs and costs[iso] <= ... * min_cost)
CountDom(costs, pct) ==
    Cardinality({iso \in buyers :
                    /\ iso \in DOMAIN costs
                    /\ WithinMarkup(costs[iso], pct, MinOver(costs, DOMAIN costs))})

\* v21 counts over dc_k, which holds every calibration row; v16 over gdp_k,
\* the rows with GDP and population data.
MarkupInit ==
    /\ costs_dict \in UNION {[S -> MarkupCosts] : S \in {{}, ISO}}
    /\ \/ prog = "v21" /\ buyers = ISO
       \/ prog = "v16" /\ buyers \in SUBSET ISO
    /\ count_dom_10 = 0
    /\ count_dom_20 = 0
    /\ extra_dom = 0
    /\ pc = "counterfactual"
    /\ NoCall
    /\ NoSourcing
    /\ NoCost
    /\ NoLater

\* min() of an empty costs_dict raises ValueError
CounterfactualEmpty ==
    /\ pc \in {"counterfactual", "recompute"}
    /\ DOMAIN costs_dict = {}
    /\ outcome' = "ValueError"
    /\ pc' = "done"
    /\ UNCHANGED <<costs_dict, cfVars, callVars, regimeVars, costVars, laterVars>>

\* min_cost, count_dom_10, count_dom_20, extra_dom.  v21 goes on to the
\* cost-recovery costs, which main binds to costs_dict.
Counterfactual ==
    /\ pc = "counterfactual"
    /\ DOMAIN costs_dict # {}
    /\ count_dom_10' = CountDom(costs_dict, 10)
    /\ count_dom_20' = CountDom(costs_dict, 20)
    /\ extra_dom' = count_dom_20' - count_dom_10'
    /\ IF prog = "v21"
       THEN /\ pc' = "recompute"
            /\ \E c \in MarkupCosts : costs_dict' = AdjCosts(costs_dict, c)
       ELSE /\ pc' = "done"
            /\ UNCHANGED costs_dict
    /\ UNCHANGED <<prog, buyers, outcome, callVars, regimeVars, costVars, laterVars>>

\* adj_min_cost, adj_count_dom_10, adj_count_dom_20 and
\* demand_data["extra_dom"], which replaces the baseline value
Recompute ==
    /\ pc = "recompute"
    /\ DOMAIN costs_dict # {}
    /\ count_dom_10' = CountDom(costs_dict, 10)
    /\ count_dom_20' = CountDom(costs_dict, 20)
    /\ extra_dom' = count_dom_20' - count_dom_10'
    /\ pc' = "done"
    /\ UNCHANGED <<costs_dict, prog, buyers, outcome, callVars, regimeVars, costVars, laterVars>>

MarkupNext == CounterfactualEmpty \/ Counterfactual \/ Recompute

SpecMarkup == MarkupInit /\ [][MarkupNext]_vars

\* the counterfactual has been computed, on the baseline or on the
\* cost-recovery costs
Counted == pc = "recompute" \/ (pc = "done" /\ outcome = "none")

\* C13: whatever the costs, at least as many buyers have a cost within 20%
\* of the cheapest as within 10%: count_dom_20 >= count_dom_10, and
\* extra_dom, their difference, is never negative.
C13_MarkupMonotone ==
    Counted =>
        /\ count_dom_20 >= count_dom_10
        /\ extra_dom = count_dom_20 - count_dom_10
        /\ extra_dom >= 0
        /\ count_dom_10 <= Cardinality(buyers)
        /\ count_dom_20 <= Cardinality(buyers)

\* a buyer is domestic at 20% and not at 10%
C13_Witness ==
    /\ Counted
    /\ count_dom_10 > 0
    /\ extra_dom > 0

\* ============================================================== sourcing
\* The regime assignment of calibrate_model_v3.py and the inference
\* re-sourcing of add_calibration_v21.py.  A latency is a whole number of
\* ms.  TAU is TAU_NUM / TAU_DEN per ms, and a delivered inference cost is
\* held times TAU_DEN, so that (1 + TAU * l) * c is the integer
\* (TAU_DEN + TAU_NUM * l) * c; it is compared in that form and rounded when
\* it is written to a row.  A cost is a whole number of 0.00001, the last
\* digit round(c, 5) keeps.

\* sorted(...) over the identifiers: "A" < "B" < "IRN"
sorted_iso == <<"A", "B", "IRN">>

\* unit costs: 15 is more than 1.4 times 10
RegimeCosts == {10, 15}

\* avg_ms values of the table: none, an ordinary one, and a slow link
LatencyVals == {0, 100, 500}

\* the tables of at most MaxLatencyRows rows, keyed (iso3_from, iso3_to)
LatencyTables ==
    UNION {[K -> LatencyVals] :
              K \in {S \in SUBSET (ISO \X ISO) : Cardinality(S) <= MaxLatencyRows}}

\* get_latency(j, k) of v3, _get_latency(j, k) of v21
get_latency(lat, j, k) ==
    IF j = k THEN Get(lat, <<j, k>>, DOMESTIC_LATENCY_DEFAULT)
    ELSE IF <<j, k>> \in DOMAIN lat THEN lat[<<j, k>>]
    ELSE IF <<k, j>> \in DOMAIN lat THEN lat[<<k, j>>]
    ELSE None

\* Python's `x or d`: d when x is None or zero
Or(x, d) == IF x = None \/ x = 0 THEN d ELSE x

\* delivered_cost(TAU, l_jk, c_j) = (1 + tau * l_jk) * c_j, times TAU_DEN
delivered_cost(l_jk, c_j) == (TAU_DEN + TAU_NUM * l_jk) * c_j

\* round(x, 5) of a cost x held times TAU_DEN, in cost units
Round5(x) == (2 * x + TAU_DEN) \div (2 * TAU_DEN)

\* f'{x:.4f}' of a cost x held times TAU_DEN, in cost units
Format4(x) == ((2 * x + 10 * TAU_DEN) \div (20 * TAU_DEN)) * 10

\* the countries named in a key of the table
latency_countries(lat) == {key[1] : key \in DOMAIN lat} \cup {key[2] : key \in DOMAIN lat}

\* cal_with_latency = calibration_set & latency_countries
cal_with_latency(costs, lat) == (DOMAIN costs) \cap latency_countries(lat)

\* a sequence without the members outside S
RECURSIVE Filter(_, _)
Filter(seq, S) ==
    IF seq = << >> THEN << >>
    ELSE IF Head(seq) \in S THEN <<Head(seq)>> \o Filter(Tail(seq), S)
    ELSE Filter(Tail(seq), S)

\* Variant: the training source chosen by delivered cost, latency included.
RECURSIVE BestTrainByLatency(_, _, _, _, _, _)
BestTrainByLatency(order, i, k, costs, lat, best) ==
    IF i > Len(order) THEN best
    ELSE IF order[i] = k \/ get_latency(lat, order[i], k) = None
         THEN BestTrainByLatency(order, i + 1, k, costs, lat, best)
    ELSE IF delivered_cost(get_latency(lat, order[i], k), costs[order[i]])
                < delivered_cost(DOMESTIC_LATENCY_DEFAULT, best.cost)
         THEN BestTrainByLatency(order, i + 1, k, costs, lat,
                                 [j |-> order[i], cost |-> costs[order[i]]])
         ELSE BestTrainByLatency(order, i + 1, k, costs, lat, best)

\* for j in sorted(cal_with_latency): ... if c_j < best_train_cost
RECURSIVE BestTrain(_, _, _, _, _, _)
BestTrain(order, i, k, costs, lat, best) ==
    IF i > Len(order) THEN best
    ELSE IF order[i] = k THEN BestTrain(order, i + 1, k, costs, lat, best)
    ELSE IF costs[order[i]] < best.cost
         THEN BestTrain(order, i + 1, k, costs, lat,
                        [j |-> order[i], cost |-> costs[order[i]]])
         ELSE BestTrain(order, i + 1, k, costs, lat, best)

\* for j in ...: l_jk = get_latency(j, k); if l_jk is None: continue;
\* cost = delivered_cost(TAU, l_jk, c_j); if cost < best_inf_cost
RECURSIVE BestInf(_, _, _, _, _, _)
BestInf(order, i, k, costs, lat, best) ==
    IF i > Len(order) THEN best
    ELSE IF order[i] = k \/ get_latency(lat, order[i], k) = None
         THEN BestInf(order, i + 1, k, costs, lat, best)
    ELSE LET cost == delivered_cost(get_latency(lat, order[i], k), costs[order[i]])
         IN  IF cost < best.cost
             THEN BestInf(order, i + 1, k, costs, lat, [j |-> order[i], cost |-> cost])
             ELSE BestInf(order, i + 1, k, costs, lat, best)

\* min(results[j]["total"] for j in cal_with_latency if j != k, default=c_k)
BestForeignTrain(S, k, costs) ==
    IF S \ {k} = {} THEN costs[k] ELSE MinOver(costs, S \ {k})

\* min(delivered_cost(TAU, get_latency(j, k) or 9999, c_j) for j in
\* cal_with_latency if j != k and get_latency(j, k) is not None,
\* default=P_I_domestic)
BestForeignInf(S, k, costs, lat, P_I_domestic) ==
    LET F == {j \in S \ {k} : get_latency(lat, j, k) # None}
        d == [j \in F |-> delivered_cost(Or(get_latency(lat, j, k), NoLatency), costs[j])]
    IN  IF F = {} THEN P_I_domestic ELSE MinOver(d, F)

\* the four regime names
Regime(dom_train, dom_inf) ==
    IF dom_train /\ dom_inf THEN "full domestic"
    ELSE IF ~dom_train /\ ~dom_inf THEN "full import"
    ELSE IF ~dom_train /\ dom_inf THEN "import training + build inference"
    ELSE "build training + import inference"

\* The body of v3's loop for the buyer k: one row of regime_rows.  l is
\* LAMBDA in units of 1/LAMBDA_DEN.
RegimeRow(k, costs, lat, l) ==
    LET S     == cal_with_latency(costs, lat)
        order == Filter(sorted_iso, S)
        c_k   == costs[k]
        l_kk  == Or(get_latency(lat, k, k), DOMESTIC_LATENCY_DEFAULT)
        P_I_domestic == delivered_cost(l_kk, c_k)
        train == BestTrain(order, 1, k, costs, lat, [j |-> k, cost |-> c_k])
        inf   == BestInf(order, 1, k, costs, lat, [j |-> k, cost |-> P_I_domestic])
        best_foreign_train == BestForeignTrain(S, k, costs)
        best_foreign_inf   == BestForeignInf(S, k, costs, lat, P_I_domestic)
        sov_dom_train == c_k * LAMBDA_DEN <= (LAMBDA_DEN + l) * best_foreign_train
        sov_dom_inf   == P_I_domestic * LAMBDA_DEN <= (LAMBDA_DEN + l) * best_foreign_inf
    IN  [iso3 |-> k,
         c_k |-> c_k,
         P_T_domestic |-> c_k,
         P_I_domestic |-> Round5(P_I_domestic),
         best_train_source |-> train.j,
         best_train_cost |-> train.cost,
         best_inf_source |-> inf.j,
         best_inf_cost |-> Round5(inf.cost),
         regime |-> Regime(train.j = k, inf.j = k),
         regime_with_sovereignty |-> Regime(sov_dom_train, sov_dom_inf)]

\* The body of v21's loop for the buyer iso_k: one entry of adj_reg, the
\* candidates taken in the order of adj_costs, which is the order of cal.
AdjRegRow(iso_k, costs, lat) ==
    LET c_k  == costs[iso_k]
        l_kk == get_latency(lat, iso_k, iso_k)
        P_I_dom == delivered_cost(Or(l_kk, 0), c_k)
        inf  == BestInf(Filter(cal, DOMAIN costs), 1, iso_k, costs, lat,
                        [j |-> iso_k, cost |-> P_I_dom])
    IN  [best_inf_source |-> inf.j,
         best_inf_cost |-> Format4(inf.cost),
         P_I_domestic |-> Format4(P_I_dom)]

\* v3 assigns the countries with a cost and a latency row, in sorted
\* order, under its LAMBDA, here 0.10 or 0; v21 assigns every buyer of dc_k
\* that has a cost, in the order of cal.
RegimeInit ==
    /\ costs_dict \in [ISO -> RegimeCosts]
    /\ latency \in LatencyTables
    /\ \/ /\ prog = "v3"
          /\ lam \in {0, LAMBDA_NUM}
          /\ todo = Filter(sorted_iso, cal_with_latency(costs_dict, latency))
       \/ /\ prog = "v21"
          /\ lam = 0
          /\ todo = Filter(cal, DOMAIN costs_dict)
    /\ regime_rows = EmptyMap
    /\ adj_reg = EmptyMap
    /\ pc = "regime"
    /\ omega = [iso \in ISO |-> 1]
    /\ k_bar = EmptyMap
    /\ supply_stack = << >>
    /\ solver = "none"
    /\ p_T = 0
    /\ p_prev = 0
    /\ m_T = 0
    /\ Q_TX = 0
    /\ it = 0
    /\ found = FALSE
    /\ brk = FALSE
    /\ shares = EmptyMap
    /\ hhi = [num |-> 0, den |-> 1]
    /\ mu = EmptyMap
    /\ outcome = "none"
    /\ call_no = 1
    /\ rets = << >>
    /\ buyers = ISO
    /\ count_dom_10 = 0
    /\ count_dom_20 = 0
    /\ extra_dom = 0
    /\ NoCost
    /\ NoLater

\* what a step of the sourcing leaves alone
notSourcing == <<costs_dict, omega, k_bar, supply_stack, solver, lam, p_T, p_prev, m_T,
                 Q_TX, it, found, brk, shares, hhi, mu, mainVars, cfVars, latency,
                 costVars, laterVars>>

\* one pass of `for k in sorted(cal_with_latency)`
AssignRegime ==
    /\ pc = "regime"
    /\ prog = "v3"
    /\ todo # << >>
    /\ regime_rows' = Put(regime_rows, Head(todo),
                          RegimeRow(Head(todo), costs_dict, latency, lam))
    /\ todo' = Tail(todo)
    /\ UNCHANGED <<notSourcing, pc, outcome, adj_reg>>

\* fieldnames=regime_rows[0].keys(): IndexError when no country has both a
\* cost and a latency row; otherwise the rows are written
SaveRegimes ==
    /\ pc = "regime"
    /\ prog = "v3"
    /\ todo = << >>
    /\ outcome' = IF DOMAIN regime_rows = {} THEN "IndexError" ELSE "saved"
    /\ pc' = "done"
    /\ UNCHANGED <<notSourcing, todo, regime_rows, adj_reg>>

\* one pass of `for iso_k in dc_k` of the inference re-sourcing
AssignInference ==
    /\ pc = "regime"
    /\ prog = "v21"
    /\ todo # << >>
    /\ adj_reg' = Put(adj_reg, Head(todo), AdjRegRow(Head(todo), costs_dict, latency))
    /\ todo' = Tail(todo)
    /\ UNCHANGED <<notSourcing, pc, outcome, regime_rows>>

\* the loop is over; main goes on to the inference revenue shares
InferenceAssigned ==
    /\ pc = "regime"
    /\ prog = "v21"
    /\ todo = << >>
    /\ outcome' = "assigned"
    /\ pc' = "done"
    /\ UNCHANGED <<notSourcing, todo, regime_rows, adj_reg>>

RegimeNext == AssignRegime \/ SaveRegimes \/ AssignInference \/ InferenceAssigned

SpecRegime == RegimeInit /\ [][RegimeNext]_vars

\* the rows written so far, of either program
Assigned == DOMAIN regime_rows \cup DOMAIN adj_reg

\* the row of buyer k
Row(k) == IF prog = "v3" THEN regime_rows[k] ELSE adj_reg[k]

\* the candidate sellers of either program, the buyer itself included
Candidates == IF prog = "v3" THEN cal_with_latency(costs_dict, latency) ELSE DOMAIN costs_dict

\* ------------------------------------------------------------------ C14
\* C14: under LAMBDA = 0 every row of v3 has regime_with_sovereignty equal
\* to regime, whatever the costs and the latency table.
C14_SovereigntyNeutral ==
    (prog = "v3" /\ lam = 0) =>
        \A k \in DOMAIN regime_rows :
            regime_rows[k].regime_with_sovereignty = regime_rows[k].regime

\* ------------------------------------------------------------------ C15
\* the training source and cost of buyer k under the table lat
TrainOf(k, lat) ==
    BestTrain(Filter(sorted_iso, cal_with_latency(costs_dict, lat)), 1, k, costs_dict, lat,
              [j |-> k, cost |-> costs_dict[k]])

\* C15: the best training source and cost of every row of v3 are those of
\* every run whose table differs in the value of one row (and so, row by
\* row, of every table with the same keys).  The capacity solver reads no
\* latency at all.
C15_LatencyIrrelevantForTraining ==
    prog = "v3" =>
        \A k \in DOMAIN regime_rows :
            \A key \in DOMAIN latency :
                \A v \in LatencyVals :
                    LET other == TrainOf(k, [latency EXCEPT ![key] = v])
                    IN  /\ regime_rows[k].best_train_source = other.j
                        /\ regime_rows[k].best_train_cost = other.cost

\* a buyer that imports training from a seller it has no latency row
\* with, and serves its own inference
C15_Witness ==
    /\ prog = "v3"
    /\ \E k \in DOMAIN regime_rows :
           /\ regime_rows[k].best_train_source # k
           /\ get_latency(latency, regime_rows[k].best_train_source, k) = None
           /\ regime_rows[k].best_inf_source = k

\* ------------------------------------------------------------------ C16
\* C16: no row names as inference source a foreign seller whose latency to
\* the buyer is above the ceiling of 300 ms.
C16_LatencyCeiling ==
    \A k \in Assigned :
        Row(k).best_inf_source # k =>
            get_latency(latency, Row(k).best_inf_source, k) <= 300

\* ------------------------------------------------------------------ C17
\* seller j can serve the inference of buyer k: it has a latency to k, and
\* one within the ceiling of 300 ms
Feasible(j, k) ==
    /\ get_latency(latency, j, k) # None
    /\ get_latency(latency, j, k) <= 300

\* C17: a buyer no candidate, itself included, can serve has the inference
\* source "unserved".
C17_Unserved ==
    \A k \in Assigned :
        (\A j \in Candidates : ~Feasible(j, k)) => Row(k).best_inf_source = "unserved"

\* ------------------------------------------------------------------ C18
\* the place of an identifier in sorted order
RECURSIVE IdRankFrom(_, _)
IdRankFrom(j, i) == IF sorted_iso[i] = j THEN i ELSE IdRankFrom(j, i + 1)

IdRank(j) == IdRankFrom(j, 1)

\* the member of a non-empty set of identifiers that sorts first
LowestId(S) == CHOOSE j \in S : \A x \in S : IdRank(j) <= IdRank(x)

\* the delivered inference cost of seller j to buyer k, the buyer's own
\* taken as the program takes it
InfCost(j, k) ==
    IF j = k
    THEN delivered_cost(Or(get_latency(latency, k, k),
                           IF prog = "v3" THEN DOMESTIC_LATENCY_DEFAULT ELSE 0),
                        costs_dict[k])
    ELSE delivered_cost(get_latency(latency, j, k), costs_dict[j])

\* the candidates with a latency to k, the buyer included
InfCandidates(k) == {j \in Candidates : j = k \/ get_latency(latency, j, k) # None}

\* C18: in every row the training source (v3) and the inference source
\* (v3, v21) is the lowest identifier among the candidates of minimal
\* delivered cost.
C18_LowestIdentifierWins ==
    \A k \in Assigned :
        /\ prog = "v3" =>
               regime_rows[k].best_train_source =
                   LowestId({j \in Candidates :
                                \A x \in Candidates : costs_dict[j] <= costs_dict[x]})
        /\ Row(k).best_inf_source =
               LowestId({j \in InfCandidates(k) :
                            \A x \in InfCandidates(k) : InfCost(j, k) <= InfCost(x, k)})

\* ------------------------------------------------------------------ C23
\* the value the table holds for the pair (j, k): the row (j, k), else the
\* row (k, j), else none; for j = k the row (k, k), else the 5 ms default
Stored(j, k) ==
    IF j = k
    THEN IF <<k, k>> \in DOMAIN latency THEN latency[<<k, k>>] ELSE DOMESTIC_LATENCY_DEFAULT
    ELSE IF <<j, k>> \in DOMAIN latency THEN latency[<<j, k>>]
    ELSE IF <<k, j>> \in DOMAIN latency THEN latency[<<k, j>>]
    ELSE None

\* the order in which the loop of either program takes the candidates
CandidateOrder ==
    IF prog = "v3" THEN Filter(sorted_iso, Candidates) ELSE Filter(cal, Candidates)

\* the rounding of a delivered cost written to a row
Written(x) == IF prog = "v3" THEN Round5(x) ELSE Format4(x)

\* C23: the lookup returns the stored value of the pair, of the reversed
\* pair, or none, and for a country itself the stored value or else 5 ms;
\* and every row's domestic inference cost and inference source are those
\* the loop computes from exactly these values.
C23_LatencyLookup ==
    /\ \A j, k \in ISO : get_latency(latency, j, k) = Stored(j, k)
    /\ \A k \in Assigned :
           LET P_I == delivered_cost(Stored(k, k), costs_dict[k])
               inf == BestInf(CandidateOrder, 1, k, costs_dict, latency,
                              [j |-> k, cost |-> P_I])
           IN  /\ Row(k).P_I_domestic = Written(P_I)
               /\ Row(k).best_inf_source = inf.j
               /\ Row(k).best_inf_cost = Written(inf.cost)

\* ======================================================= regime changes
\* main's count of regime changes (add_calibration_v21.py 4978-5016) on
\* the files calibrate_model_v3.py wrote: reg holds v3's rows, cal its
\* costs.  Here a cost is a whole number of 0.01 $/hr.

\* v3's totals: 1.00 and 1.42 $/hr
ChangeCosts == {100, 142}

\* ETA = 0.15 $/hr of networking, which main adds to every c_j_total
ETA_CENTS == 15

\* delta_elec of the country of SUBSIDY_ADJ: none, or 0.20 $/hr
DeltaElecs == {0, 20}

\* costs_dict = {row["iso3"]: float(row["c_j_total"]) + ETA for row in cal}
WithEta(results) == [iso \in DOMAIN results |-> results[iso] + ETA_CENTS]

\* adj_costs: costs_dict with delta_elec added for the countries of
\* SUBSIDY_ADJ
Adjusted(costs, delta_elec) ==
    [iso \in DOMAIN costs |-> IF iso \in SUBSIDY_ADJ THEN costs[iso] + delta_elec
                              ELSE costs[iso]]

\* adj_costs[adj_ranked[0][0]]: the cost of the cheapest country
CheapestTrain(adj) == MinOver(adj, DOMAIN adj)

\* the regime main recomputes for the buyer iso_k from adj_costs
NewRegime(iso_k, adj, lat) ==
    LET c_k_adj        == adj[iso_k]
        adj_train_cost == CheapestTrain(adj)
        is_dom_train   == adj_train_cost >= c_k_adj
        l_kk           == get_latency(lat, iso_k, iso_k)
        P_I_dom        == IF l_kk # None THEN delivered_cost(l_kk, c_k_adj)
                          ELSE delivered_cost(0, c_k_adj)
        inf            == BestInf(Filter(cal, DOMAIN adj), 1, iso_k, adj, lat,
                                  [j |-> iso_k, cost |-> P_I_dom])
        is_dom_inf     == inf.j = iso_k
    IN  IF is_dom_train /\ is_dom_inf THEN "full domestic"
        ELSE IF is_dom_train THEN "build training + import inference"
        ELSE IF is_dom_inf THEN "import training + build inference"
        ELSE "full import"

\* v3 starts its regime loop on its own totals
ChangesInit ==
    /\ costs_dict \in [ISO -> ChangeCosts]
    /\ latency \in LatencyTables
    /\ prog = "v3"
    /\ lam = LAMBDA_NUM
    /\ todo = Filter(sorted_iso, cal_with_latency(costs_dict, latency))
    /\ regime_rows = EmptyMap
    /\ adj_reg = EmptyMap
    /\ pc = "regime"
    /\ omega = [iso \in ISO |-> 1]
    /\ k_bar = EmptyMap
    /\ supply_stack = << >>
    /\ solver = "none"
    /\ p_T = 0
    /\ p_prev = 0
    /\ m_T = 0
    /\ Q_TX = 0
    /\ it = 0
    /\ found = FALSE
    /\ brk = FALSE
    /\ shares = EmptyMap
    /\ hhi = [num |-> 0, den |-> 1]
    /\ mu = EmptyMap
    /\ outcome = "none"
    /\ call_no = 1
    /\ rets = << >>
    /\ buyers = ISO
    /\ count_dom_10 = 0
    /\ count_dom_20 = 0
    /\ extra_dom = 0
    /\ NoCost
    /\ NoLater

\* main loads cal and reg, adds ETA to the costs and builds adj_costs
LoadCalibration ==
    /\ pc = "done"
    /\ prog = "v3"
    /\ outcome = "saved"
    /\ prog' = "v21"
    /\ costs_dict' = WithEta(costs_dict)
    /\ \E delta_elec \in DeltaElecs : adj_costs' = Adjusted(costs_dict', delta_elec)
    /\ todo' = cal
    /\ regime_changes' = 0
    /\ new_regime' = EmptyMap
    /\ pc' = "changes"
    /\ outcome' = "none"
    /\ UNCHANGED <<callVars, buyers, count_dom_10, count_dom_20, extra_dom,
                   latency, regime_rows, adj_reg, costVars, saveVars, runVars>>

\* one pass of `for iso_k in dc_k`: a buyer without a row in reg is
\* passed over
CountChange ==
    /\ pc = "changes"
    /\ todo # << >>
    /\ LET iso_k == Head(todo)
       IN  IF iso_k \notin DOMAIN regime_rows
           THEN UNCHANGED <<new_regime, regime_changes>>
           ELSE /\ new_regime' = Put(new_regime, iso_k, NewRegime(iso_k, adj_costs, latency))
                /\ regime_changes' =
                       IF new_regime'[iso_k] # regime_rows[iso_k].regime
                       THEN regime_changes + 1 ELSE regime_changes
    /\ todo' = Tail(todo)
    /\ UNCHANGED <<costs_dict, callVars, pc, outcome, cfVars, latency, regime_rows,
                   adj_reg, costVars, adj_costs, saveVars, runVars>>

\* demand_data["regime_changes"] = regime_changes
ChangesCounted ==
    /\ pc = "changes"
    /\ todo = << >>
    /\ outcome' = "counted"
    /\ pc' = "done"
    /\ UNCHANGED <<costs_dict, callVars, cfVars, regimeVars, costVars, changeVars,
                   saveVars, runVars>>

ChangesNext ==
    AssignRegime \/ SaveRegimes \/ LoadCalibration \/ CountChange \/ ChangesCounted

SpecChanges == ChangesInit /\ [][ChangesNext]_vars

\* ------------------------------------------------------------------ C28
\* C28: when the subsidy adjustment leaves every cost as it was, the
\* regime main recomputes for a buyer is the regime v3 stored for it, and
\* no regime change is counted.
C28_RecomputationConsistent ==
    (prog = "v21" /\ adj_costs = costs_dict) =>
        /\ \A k \in DOMAIN new_regime : new_regime[k] = regime_rows[k].regime
        /\ regime_changes = 0

\* ============================================================ cost model
\* recompute_costs of add_calibration_v21.py and the c_j loop of
\* calibrate_model_v3.py, for one calibration row.  An electricity price is
\* a whole number of 0.001 $/kWh, a temperature of degrees C, a PUE of
\* thousandths, a utilisation of tenths, and a unit cost of 0.0000001 $/hr,
\* so that pue * GAMMA * p_E is the integer product of the three.  The
\* hardware term is kept to 0.001 $/hr and v3's construction term to
\* 0.00001 $/hr.

Max(a, b) == IF a >= b THEN a ELSE b

\* gp / (GPU_LIFE * H_YR * gu), gu in tenths
Rho(gp, gu) == ((gp * 10000) \div (GPU_LIFE * H_YR * gu)) * 10000

\* PHI + DELTA_PUE * max(0, theta - THETA_REF)
Pue(theta) == PHI + DELTA_PUE * Max(0, theta - THETA_REF)

\* the keyword arguments of the six scenarios of run_sensitivity
Scenarios ==
    {[gpu_price |-> None, gpu_util |-> None, p_E_delta |-> 0, pue_cap |-> None],
     [gpu_price |-> None, gpu_util |-> None, p_E_delta |-> 10, pue_cap |-> None],
     [gpu_price |-> None, gpu_util |-> None, p_E_delta |-> -10, pue_cap |-> None],
     [gpu_price |-> 30000, gpu_util |-> None, p_E_delta |-> 0, pue_cap |-> None],
     [gpu_price |-> 20000, gpu_util |-> None, p_E_delta |-> 0, pue_cap |-> None],
     [gpu_price |-> None, gpu_util |-> None, p_E_delta |-> 0, pue_cap |-> 1200]}

\* electricity prices of a row: 0.005 and 0.100 $/kWh, and the values a
\* price file should not hold, 0 and -0.005
PEs == {-5, 0, 5, 100}

\* summer-peak temperatures: below, at and above THETA_REF
Thetas == {10, 15, 40}

\* c_j_construction of a v21 row, in cost units: 0.05 and 0.06 $/hr
Constructions == {500000, 600000}

\* construction prices of v3, in $/W
PLs == {5, 10}

\* subsidy_adj[iso] of a row's country, or None when it is not in
\* SUBSIDY_ADJ: 0.085 $/kWh
SubsidyPrices == {None, 85}

\* the electricity price recompute_costs works with: the row's or the
\* substitute of SUBSIDY_ADJ, plus p_E_delta
EffectivePrice(r, kw) ==
    (IF r.subsidy # None THEN r.subsidy ELSE r.p_E_usd_kwh) + kw.p_E_delta

\* Variant: the cooling overhead falls with the temperature.
RecomputedCostCoolingInverted(r, kw) ==
    LET rho == Rho(Or(kw.gpu_price, GPU_PRICE), Or(kw.gpu_util, GPU_UTIL))
        pue == PHI + DELTA_PUE * Max(0, THETA_REF - r.theta_summer_C)
    IN  pue * GAMMA * EffectivePrice(r, kw) + rho + ETA + r.c_j_construction

\* costs[iso] of recompute_costs for the row r under the overrides kw
RecomputedCost(r, kw) ==
    LET rho    == Rho(Or(kw.gpu_price, GPU_PRICE), Or(kw.gpu_util, GPU_UTIL))
        pue    == Pue(r.theta_summer_C)
        capped == IF kw.pue_cap # None THEN Min(pue, kw.pue_cap) ELSE pue
        c_elec == capped * GAMMA * EffectivePrice(r, kw)
    IN  c_elec + rho + ETA + r.c_j_construction

\* c_total of v3 for the row r: c_elec + c_hw + c_constr
CalibratedCost(r) ==
    LET c_elec   == Pue(r.theta) * (GPU_TDP_W \div 100) * r.p_E
        c_hw     == Rho(GPU_PRICE, GPU_UTIL_V3)
        c_constr == ((GPU_TDP_W * r.p_L * 100000) \div (DC_LIFE * H_YR)) * 100
    IN  c_elec + c_hw + c_constr

CostInit ==
    /\ \/ /\ prog = "v21"
          /\ row \in [p_E_usd_kwh : PEs, theta_summer_C : Thetas,
                      c_j_construction : Constructions, subsidy : SubsidyPrices]
          /\ kwargs \in Scenarios
       \/ /\ prog = "v3"
          /\ row \in [p_E : PEs, theta : Thetas, p_L : PLs]
          /\ kwargs = EmptyMap
    /\ c_total = 0
    /\ pc = "cost"
    /\ costs_dict = EmptyMap
    /\ NoCall
    /\ buyers = ISO
    /\ count_dom_10 = 0
    /\ count_dom_20 = 0
    /\ extra_dom = 0
    /\ NoSourcing
    /\ NoLater

\* one pass of `for row in cal` of recompute_costs
RecomputeCost ==
    /\ pc = "cost"
    /\ prog = "v21"
    /\ c_total' = RecomputedCost(row, kwargs)
    /\ outcome' = "computed"
    /\ pc' = "done"
    /\ UNCHANGED <<costs_dict, callVars, prog, buyers, count_dom_10, count_dom_20,
                   extra_dom, regimeVars, row, kwargs, laterVars>>

\* one pass of `for iso3 in sorted(calibration_set)` of v3
CalibrateCost ==
    /\ pc = "cost"
    /\ prog = "v3"
    /\ c_total' = CalibratedCost(row)
    /\ outcome' = "computed"
    /\ pc' = "done"
    /\ UNCHANGED <<costs_dict, callVars, prog, buyers, count_dom_10, count_dom_20,
                   extra_dom, regimeVars, row, kwargs, laterVars>>

CostNext == RecomputeCost \/ CalibrateCost

SpecCost == CostInit /\ [][CostNext]_vars

\* a unit cost has been computed from the row
Costed == pc = "done" /\ outcome = "computed"

\* the row's own electricity price and construction term
RowPrice == IF prog = "v21" THEN row.p_E_usd_kwh ELSE row.p_E

RowTheta == IF prog = "v21" THEN row.theta_summer_C ELSE row.theta

RowConstruction == IF prog = "v21" THEN row.c_j_construction ELSE row.p_L

\* the values the row's construction input is drawn from
ConstructionInputs == IF prog = "v21" THEN Constructions ELSE PLs

\* the unit cost of the row with one input replaced
CostWith(field, v) ==
    IF prog = "v21"
    THEN RecomputedCost(
             CASE field = "price" -> [row EXCEPT !.p_E_usd_kwh = v]
               [] field = "theta" -> [row EXCEPT !.theta_summer_C = v]
               [] field = "construction" -> [row EXCEPT !.c_j_construction = v],
             kwargs)
    ELSE CalibratedCost(
             CASE field = "price" -> [row EXCEPT !.p_E = v]
               [] field = "theta" -> [row EXCEPT !.theta = v]
               [] field = "construction" -> [row EXCEPT !.p_L = v])

\* the electricity price the cost is computed from
PriceUsed == IF prog = "v21" THEN EffectivePrice(row, kwargs) ELSE row.p_E

\* a record the cost model is specified for: its own electricity price and
\* the price the cost is computed from are both positive
Admissible == RowPrice > 0 /\ PriceUsed > 0

C20_InvalidInputRejected ==
    (pc = "done" /\ PriceUsed <= 0) => outcome # "computed"

\* ===================================================== solver, continued
\* the allocation of the seller at position i of the stack
Allocated(i) == Get(shares, supply_stack[i][1], 0)

\* ------------------------------------------------------------------ C21
\* C21: in the allocation of either solver, when a non-excluded seller has
\* a positive allocation every non-excluded seller before it on the stack
\* is allocated its full capacity k * ALPHA; so at most one seller with an
\* allocation has less than its capacity.
C21_GreedyFill ==
    SharesDone =>
        /\ \A j \in StackIdx :
               (Open(j) /\ Allocated(j) > 0) =>
                   \A i \in 1..(j - 1) :
                       Open(i) => Allocated(i) = CapAvailable(supply_stack[i][3])
        /\ Cardinality({j \in StackIdx :
                            /\ Open(j)
                            /\ Allocated(j) > 0
                            /\ Allocated(j) < CapAvailable(supply_stack[j][3])}) <= 1

\* a seller filled to capacity ahead of a later seller that is allocated
\* part of its capacity
C21_Witness ==
    /\ Returned
    /\ \E i, j \in StackIdx :
           /\ i < j
           /\ Open(i) /\ Open(j)
           /\ Allocated(i) > 0
           /\ Allocated(i) = CapAvailable(supply_stack[i][3])
           /\ Allocated(j) > 0
           /\ Allocated(j) < CapAvailable(supply_stack[j][3])

\* ------------------------------------------------------------------ C22
\* the walk, the allocation and the shadow values leave a sanctioned
\* seller out
C22_ExcludedNotServed ==
    /\ ((pc = "loop" \/ LoopOver) /\ found /\ Full) => Open(m_T + 1)
    /\ SharesDone => \A i \in StackIdx : ~Open(i) => Allocated(i) = 0
    /\ (Returned /\ Full) =>
           \A i \in StackIdx : ~Open(i) => supply_stack[i][1] \notin DOMAIN mu

\* C22: a sanctioned seller is never the marginal seller of a walk, is
\* never given an allocation or a shadow value, and the price returned is
\* not the cost of sanctioned sellers only.
C22_ExcludedStayOut ==
    /\ C22_ExcludedNotServed
    /\ Returned =>
           \/ \E i \in StackIdx : Open(i) /\ supply_stack[i][2] = p_T
           \/ \A i \in StackIdx : supply_stack[i][2] # p_T

\* ------------------------------------------------------------------ C24
\* the cost-recovery costs are bound: main is at its third or fourth call
Rebound == call_no > 2

\* C24: no step of a call changes the supply stack, the costs, the demand
\* weights or the grid capacities; what a call returns is what the solver
\* computes from the stack, costs and weights bound when it returns and
\* its markup; and from main's third call on these are the cost-recovery
\* costs and the stack built from them.
C24_Purity ==
    /\ [][pc # "done" => UNCHANGED <<supply_stack, costs_dict, omega, k_bar>>]_vars
    /\ [](Returned =>
              LET r == Solve(costs_dict, supply_stack, lam, TRUE)
              IN  /\ p_T = r.p_T
                  /\ m_T = r.m_T
                  /\ shares = r.shares
                  /\ hhi = r.hhi
                  /\ mu = r.mu)
    /\ [](Rebound =>
              /\ costs_dict = AdjCosts(rets[1].costs_dict, costs_dict["IRN"])
              /\ supply_stack = BuildSupplyStack(costs_dict, k_bar))

\* main's third call has returned on a cost-recovery stack that differs
\* from the baseline stack, with another price than its first call
C24_Witness ==
    /\ Returned
    /\ call_no = 3
    /\ supply_stack # rets[1].supply_stack
    /\ p_T # rets[1].p_T

\* ------------------------------------------------------------------ C25
\* the position of the first non-sanctioned seller at which the cumulative
\* non-sanctioned capacity is at least Q, or 0 when there is none
RECURSIVE FirstReaching(_, _, _)
FirstReaching(idx, cum_cap, Q) ==
    IF idx > Len(supply_stack) THEN 0
    ELSE IF ~Open(idx) THEN FirstReaching(idx + 1, cum_cap, Q)
    ELSE IF cum_cap + CapAvailable(supply_stack[idx][3]) >= Q THEN idx
    ELSE FirstReaching(idx + 1, cum_cap + CapAvailable(supply_stack[idx][3]), Q)

\* (a) Q_TX is the bulk demand of exactly the buyers whose cost exceeds
\* (1 + lam) * p_T, and (b) p_T is the cost of the first seller at which
\* the cumulative capacity reaches Q_TX
FixedPoint ==
    /\ Q_TX = ExportDemand(costs_dict, lam, p_T)
    /\ FirstReaching(1, 0, Q_TX) > 0
    /\ supply_stack[FirstReaching(1, 0, Q_TX)][2] = p_T

\* C25: the price and the export demand a call of
\* solve_capacity_equilibrium returns satisfy (a) and (b), whether its
\* loop ended through the convergence break or by using up its 30 passes.
C25_FixedPointConsistency ==
    (Returned /\ Full) => FixedPoint

\* the half of C25 about the convergence break
C25_FixedPointOnBreak ==
    (Returned /\ Full /\ brk) => FixedPoint

\* ------------------------------------------------------------------ C26
\* _solve_mini taken from its own text (run_sensitivity, lines 136-177),
\* apart from the shared model of the two solvers above.

\* Variant: a buyer at the trial price imports too.
MiniImportsAtPar(c_k, p) == c_k >= p

\* costs_s[iso] > p_T
MiniImports(c_k, p) == c_k > p

\* Q_TX of one pass of _solve_mini
RECURSIVE MiniExportDemandFrom(_, _, _)
MiniExportDemandFrom(i, costs_s, p) ==
    IF i > Len(cal) THEN 0
    ELSE (IF cal[i] \in DOMAIN costs_s /\ MiniImports(costs_s[cal[i]], p)
          THEN TimesAlpha(TimesQTotal(Get(omega, cal[i], 0)))
          ELSE 0)
         + MiniExportDemandFrom(i + 1, costs_s, p)

\* the walk of _solve_mini from row i: found and p_T_new, which starts as
\* p_T
RECURSIVE MiniWalk(_, _, _, _, _)
MiniWalk(supply_stack_s, i, cum_cap, Q, p) ==
    IF i > Len(supply_stack_s) THEN [found |-> FALSE, p_T_new |-> p]
    ELSE IF supply_stack_s[i][1] \in sanctioned
         THEN MiniWalk(supply_stack_s, i + 1, cum_cap, Q, p)
    ELSE IF cum_cap + supply_stack_s[i][3] * ALPHA_NUM >= Q /\ Q > 0
         THEN [found |-> TRUE, p_T_new |-> supply_stack_s[i][2]]
         ELSE MiniWalk(supply_stack_s, i + 1, cum_cap + supply_stack_s[i][3] * ALPHA_NUM, Q, p)

\* one pass of the loop of _solve_mini from the trial price p
MiniLoopBody(supply_stack_s, costs_s, p) ==
    LET Q == MiniExportDemandFrom(1, costs_s, p)
        w == MiniWalk(supply_stack_s, 1, 0, Q, p)
    IN  [Q_TX  |-> Q,
         found |-> w.found,
         p_T   |-> IF w.found THEN w.p_T_new ELSE p,
         brk   |-> w.found /\ Abs(w.p_T_new - p) < Tol]

\* the shares of _solve_mini
RECURSIVE MiniFill(_, _, _, _, _)
MiniFill(supply_stack_s, i, p, remaining, sh) ==
    IF i > Len(supply_stack_s) THEN sh
    ELSE IF supply_stack_s[i][1] \in sanctioned
         THEN MiniFill(supply_stack_s, i + 1, p, remaining, sh)
    ELSE IF supply_stack_s[i][2] > p THEN sh
    ELSE LET ca == Min(supply_stack_s[i][3] * ALPHA_NUM, remaining)
         IN  IF ca > 0
             THEN IF remaining - ca <= 0
                  THEN Put(sh, supply_stack_s[i][1], ca)
                  ELSE MiniFill(supply_stack_s, i + 1, p, remaining - ca,
                                Put(sh, supply_stack_s[i][1], ca))
             ELSE IF remaining <= 0 THEN sh
                  ELSE MiniFill(supply_stack_s, i + 1, p, remaining, sh)

\* C26: solve_capacity_equilibrium with markup 0 starts from the trial
\* price _solve_mini starts from, every pass of its loop gives the export
\* demand, the next trial price and the break that a pass of _solve_mini
\* gives from the same trial price, and it returns the number of exporters
\* and the concentration index of _solve_mini; the model's call of
\* _solve_mini itself does as well.
C26_SolversAgree ==
    /\ [][(pc = "call" /\ lam = 0 /\ pc' = "loop") => p_T' = supply_stack[1][2]]_vars
    /\ [][(pc = "loop" /\ lam = 0) =>
              LET b == MiniLoopBody(supply_stack, costs_dict, p_T)
              IN  /\ Q_TX' = b.Q_TX
                  /\ found' = b.found
                  /\ p_T' = b.p_T
                  /\ brk' = b.brk]_vars
    /\ [](SharesDone /\ lam = 0 =>
              LET sh == MiniFill(supply_stack, 1, p_T, Q_TX, EmptyMap)
              IN  /\ Cardinality(DOMAIN shares) = Cardinality(DOMAIN sh)
                  /\ hhi = Hhi(sh))

\* a call of solve_capacity_equilibrium with markup 0 that moved the price
\* and returned two exporters
C26_Witness ==
    /\ Returned /\ Full
    /\ lam = 0
    /\ p_T # supply_stack[1][2]
    /\ Cardinality(DOMAIN shares) >= 2

\* ------------------------------------------------------------------ C27
\* what solve_capacity_equilibrium returns at markup 0 on the inputs of
\* the call under way
AtMarkupZero == Solve(costs_dict, supply_stack, 0, TRUE)

\* C27: the clearing price and the export demand of a call with markup
\* LAMBDA are each at most those of the call with markup 0 on the same
\* supply stack, costs and demand weights.
C27_SovereigntyShrinks ==
    (Returned /\ Full /\ lam = LAMBDA_NUM) =>
        /\ p_T <= AtMarkupZero.p_T
        /\ Q_TX <= AtMarkupZero.Q_TX

\* C27 for two calls that both left the loop through the convergence break
C27_ShrinksWhenConverged ==
    (Returned /\ Full /\ lam = LAMBDA_NUM /\ brk /\ AtMarkupZero.brk) =>
        /\ p_T <= AtMarkupZero.p_T
        /\ Q_TX <= AtMarkupZero.Q_TX

\* ================================================================== save
\* The save loop of main (add_calibration_v21.py 5328-5339).  doc.save
\* raises PermissionError while Word holds the file open, and may raise
\* another exception at any attempt.

\* everything but the save
notSave == <<costs_dict, callVars, cfVars, regimeVars, costVars, changeVars, runVars>>

SaveInit ==
    /\ pc = "save"
    /\ attempt = 0
    /\ saves = 0
    /\ sleeps = 0
    /\ locked \in BOOLEAN
    /\ costs_dict = EmptyMap
    /\ NoCall
    /\ prog = "v21"
    /\ buyers = ISO
    /\ count_dom_10 = 0
    /\ count_dom_20 = 0
    /\ extra_dom = 0
    /\ NoSourcing
    /\ NoCost
    /\ adj_costs = EmptyMap
    /\ new_regime = EmptyMap
    /\ regime_changes = 0
    /\ t_elements = << >>
    /\ para = << >>
    /\ old_text = << >>
    /\ new_text = << >>

\* Word opens or closes the file
WordToggles ==
    /\ pc = "save"
    /\ locked' = ~locked
    /\ UNCHANGED <<notSave, pc, outcome, attempt, saves, sleeps>>

\* doc.save(str(out)) returns; break; print(f"\nSaved {out}")
SaveDone ==
    /\ pc = "save"
    /\ attempt < SaveAttempts
    /\ ~locked
    /\ saves' = saves + 1
    /\ outcome' = "Saved"
    /\ pc' = "done"
    /\ UNCHANGED <<notSave, attempt, sleeps, locked>>

\* except PermissionError: time.sleep(2), and the next attempt
SaveLocked ==
    /\ pc = "save"
    /\ attempt < SaveAttempts
    /\ locked
    /\ saves' = saves + 1
    /\ sleeps' = sleeps + 1
    /\ attempt' = attempt + 1
    /\ UNCHANGED <<notSave, pc, outcome, locked>>

\* doc.save raises an exception other than PermissionError, which no
\* clause catches
SaveRaises ==
    /\ pc = "save"
    /\ attempt < SaveAttempts
    /\ saves' = saves + 1
    /\ outcome' = "Exception"
    /\ pc' = "done"
    /\ UNCHANGED <<notSave, attempt, sleeps, locked>>

\* Variant: the loop has no else clause and falls through to the report.
GiveUpSilently ==
    /\ pc = "save"
    /\ attempt = SaveAttempts
    /\ outcome' = "Saved"
    /\ pc' = "done"
    /\ UNCHANGED <<notSave, attempt, saves, sleeps, locked>>

\* else: raise PermissionError(...)
GiveUp ==
    /\ pc = "save"
    /\ attempt = SaveAttempts
    /\ outcome' = "PermissionError"
    /\ pc' = "done"
    /\ UNCHANGED <<notSave, attempt, saves, sleeps, locked>>

SaveNext == WordToggles \/ SaveDone \/ SaveLocked \/ SaveRaises \/ GiveUp

SpecSave == SaveInit /\ [][SaveNext]_vars

\* ------------------------------------------------------------------ C29
\* C29: doc.save is called at most 30 times; a wait follows a
\* PermissionError and nothing else; the first call that succeeds ends the
\* loop and the file is reported saved; after 30 PermissionErrors main
\* raises PermissionError and reports nothing; another exception ends main
\* at once.
C29_SaveRetry ==
    /\ [](saves <= SaveAttempts /\ sleeps <= saves)
    /\ [][sleeps' # sleeps => (locked /\ saves' = saves + 1 /\ sleeps' = sleeps + 1)]_vars
    /\ [][saves' # saves =>
              \/ locked /\ sleeps' = sleeps + 1 /\ pc' = "save"
              \/ pc' = "done" /\ sleeps' = sleeps]_vars
    /\ [](outcome = "Saved" => (pc = "done" /\ saves <= SaveAttempts /\ sleeps = saves - 1))
    /\ [](outcome = "PermissionError" =>
              (pc = "done" /\ saves = SaveAttempts /\ sleeps = SaveAttempts))
    /\ [](outcome = "Exception" => (pc = "done" /\ sleeps = saves - 1))
    /\ [][pc = "done" => UNCHANGED <<saves, sleeps, outcome>>]_vars

\* the file was locked through all 30 attempts and main raised
C29_Witness ==
    /\ pc = "done"
    /\ outcome = "PermissionError"
    /\ saves = SaveAttempts

\* ======================================================= replace_in_runs
\* replace_in_runs of fix_proofread_v20.py (19-81).  A text is a sequence
\* of characters, t_elements the texts of the paragraph's w:t elements in
\* document order; an element without text (None) is the empty text.

Chars == {"a", "b"}

\* the texts of at most n characters
Texts(n) == UNION {[1..m -> Chars] : m \in 0..n}

\* the paragraphs: at most MaxRuns elements of at most MaxRunLen characters
Paragraphs == UNION {[1..m -> Texts(MaxRunLen)] : m \in 0..MaxRuns}

\* the texts looked for: one or two characters
OldTexts == Texts(2) \ {<< >>}

\* the replacements: nothing, or a character the paragraph does not hold
NewTexts == {<< >>, <<"x">>}

\* ''.join(t.text or '' for t in t_elements)
RECURSIVE Join(_)
Join(ts) == IF ts = << >> THEN << >> ELSE Head(ts) \o Join(Tail(ts))

\* old occurs in text at the (1-based) position q
OccursAt(text, old, q) ==
    /\ q >= 1
    /\ q + Len(old) - 1 <= Len(text)
    /\ SubSeq(text, q, q + Len(old) - 1) = old

\* old_text in text
In(old, text) == \E q \in 1..Len(text) : OccursAt(text, old, q)

\* text.index(old), 1-based
Index(text, old) ==
    CHOOSE q \in 1..Len(text) :
        OccursAt(text, old, q) /\ \A r \in 1..(q - 1) : ~OccursAt(text, old, r)

\* text.replace(old, new, 1)
Replace1(text, old, new) ==
    LET q == Index(text, old)
    IN  SubSeq(text, 1, q - 1) \o new \o SubSeq(text, q + Len(old), Len(text))

\* the first element whose text holds old_text, or 0
RECURSIVE FirstHolding(_, _, _)
FirstHolding(ts, k, old) ==
    IF k > Len(ts) THEN 0
    ELSE IF ts[k] # << >> /\ In(old, ts[k]) THEN k
    ELSE FirstHolding(ts, k + 1, old)

\* char_map: for every character of the paragraph, its element and its
\* (1-based) place in the element's text
RECURSIVE CharMapFrom(_, _)
CharMapFrom(ts, k) ==
    IF k > Len(ts) THEN << >>
    ELSE [i \in 1..Len(ts[k]) |-> <<k, i>>] \o CharMapFrom(ts, k + 1)

\* ''.join(ch for i, ch in enumerate(text) if i not in chars_to_remove),
\* the places counted from 1
RECURSIVE WithoutPlaces(_, _, _)
WithoutPlaces(text, i, chars_to_remove) ==
    IF i > Len(text) THEN << >>
    ELSE (IF i \in chars_to_remove THEN << >> ELSE <<text[i]>>)
         \o WithoutPlaces(text, i + 1, chars_to_remove)

\* the cross-run case: the replacement goes to the element of the first
\* matched character; the first loop cuts the first character of a later
\* element when the match ends on it; the second removes from every later
\* affected element the places of its matched characters
CrossRun(ts, old, new) ==
    LET full      == Join(ts)
        char_map  == CharMapFrom(ts, 1)
        start     == Index(full, old)
        last      == start + Len(old) - 1
        first_t   == char_map[start][1]
        first_idx == char_map[start][2]
        ts1 == [ts EXCEPT ![first_t] = SubSeq(@, 1, first_idx - 1) \o new]
        t_last == char_map[last][1]
        ts2 == IF last > start /\ t_last # first_t /\ char_map[last][2] = 1
               THEN [ts1 EXCEPT ![t_last] = Tail(@)]
               ELSE ts1
        affected == {char_map[pos][1] : pos \in start..last} \ {first_t}
    IN  [k \in 1..Len(ts) |->
            IF k \in affected
            THEN WithoutPlaces(ts2[k], 1,
                               {char_map[pos][2] : pos \in {q \in start..last : char_map[q][1] = k}})
            ELSE ts2[k]]

\* replace_in_runs(para_element, old_text, new_text): what it returns and
\* the texts it leaves
replace_in_runs(ts, old, new) ==
    IF ~In(old, Join(ts)) THEN [ret |-> FALSE, t_elements |-> ts]
    ELSE LET k == FirstHolding(ts, 1, old)
         IN  IF k > 0
             THEN [ret |-> TRUE, t_elements |-> [ts EXCEPT ![k] = Replace1(@, old, new)]]
             ELSE [ret |-> TRUE, t_elements |-> CrossRun(ts, old, new)]

RunsInit ==
    /\ para \in Paragraphs
    /\ t_elements = para
    /\ old_text \in OldTexts
    /\ new_text \in NewTexts
    /\ pc = "replace"
    /\ costs_dict = EmptyMap
    /\ NoCall
    /\ prog = "v21"
    /\ buyers = ISO
    /\ count_dom_10 = 0
    /\ count_dom_20 = 0
    /\ extra_dom = 0
    /\ NoSourcing
    /\ NoCost
    /\ adj_costs = EmptyMap
    /\ new_regime = EmptyMap
    /\ regime_changes = 0
    /\ attempt = 0
    /\ saves = 0
    /\ sleeps = 0
    /\ locked = FALSE

\* everything but the paragraph and the result
notRuns == <<costs_dict, callVars, cfVars, regimeVars, costVars, changeVars, saveVars,
             para, old_text, new_text>>

\* a call that finds old_text and returns True
ReplaceFound ==
    /\ pc = "replace"
    /\ In(old_text, Join(t_elements))
    /\ t_elements' = replace_in_runs(t_elements, old_text, new_text).t_elements
    /\ outcome' = "True"
    /\ pc' = "done"
    /\ UNCHANGED notRuns

\* a call that does not find old_text and returns False
ReplaceNotFound ==
    /\ pc = "replace"
    /\ ~In(old_text, Join(t_elements))
    /\ t_elements' = replace_in_runs(t_elements, old_text, new_text).t_elements
    /\ outcome' = "False"
    /\ pc' = "done"
    /\ UNCHANGED notRuns

RunsNext == ReplaceFound \/ ReplaceNotFound

SpecRuns == RunsInit /\ [][RunsNext]_vars

\* the text with the occurrence of old_text at q replaced by new_text
ReplacedAt(text, q) ==
    SubSeq(text, 1, q - 1) \o new_text \o SubSeq(text, q + Len(old_text), Len(text))

\* the match of the cross-run case ends on the first character of an
\* element that has more characters
EndsOnFirstOfLonger ==
    LET char_map == CharMapFrom(para, 1)
        start    == Index(Join(para), old_text)
        last     == start + Len(old_text) - 1
    IN  /\ FirstHolding(para, 1, old_text) = 0
        /\ char_map[last][2] = 1
        /\ Len(para[char_map[last][1]]) > 1

\* ------------------------------------------------------------------ C30
\* C30: after a call that returned True the joined text of the paragraph
\* is the joined text before the call with one occurrence of old_text
\* replaced by new_text, however the text is split into elements; after a
\* call that returned False the paragraph is as it was.
C30_TextReplacement ==
    pc = "done" =>
        /\ outcome = "True" =>
               \E q \in 1..Len(Join(para)) :
                   /\ OccursAt(Join(para), old_text, q)
                   /\ Join(t_elements) = ReplacedAt(Join(para), q)
        /\ outcome = "False" => t_elements = para

\* C30 apart from a match that ends on the first character of a longer
\* element
C30_ReplacementElsewhere ==
    (pc = "done" /\ (outcome = "True" => ~EndsOnFirstOfLonger)) =>
        /\ outcome = "True" =>
               \E q \in 1..Len(Join(para)) :
                   /\ OccursAt(Join(para), old_text, q)
                   /\ Join(t_elements) = ReplacedAt(Join(para), q)
        /\ outcome = "False" => t_elements = para

====
